---- MODULE Spec2Model ----
(***************************************************************************)
(* Model of emojay's filter / cache / chunk engine (src/src/main.rs).      *)
(*                                                                         *)
(* The program is a druid application.  Its state is the EmojiStuff value  *)
(* (search text, current EmojiList), the process-wide INTERN slot (length, *)
(* pointer), the heap blocks leaked by EmojiList::filter, and what the     *)
(* host holds: the old_data copy handed to update, the rows it rendered,   *)
(* a pending COPY command and the clipboard.  One host event is handled at *)
(* a time; the handler EmojiPane::event is modelled statement by statement *)
(* (pc) because several properties speak about its intermediate states.    *)
(***************************************************************************)
EXTENDS Integers, Sequences, FiniteSets, TLC

(* ---------------------------------------------------------------------- *)
(* Bounds                                                                  *)
(* ---------------------------------------------------------------------- *)

\* number of heap blocks the model lets filter allocate before it stops
\* delivering events (the program itself never stops)
MaxAllocs == 3

(* ---------------------------------------------------------------------- *)
(* Program constants                                                       *)
(* ---------------------------------------------------------------------- *)

\* self.0.chunks(5), [Emoji; 5]
ChunkWidth == 5

\* .map(|score| score > 25)
Threshold == 25

\* ptr::null_mut(): the pointer INTERN starts with
NULL == 0

\* address of the static corpus mojis::EMOJIS (never a heap block)
STATIC == 0 - 1

\* NonNull::dangling(): the pointer of a leaked Vec that never allocated
\* (collect() of zero elements)
DANGLING == 0 - 2

\* Emoji((" ", "0")): the entry pushed into a short last chunk
Sentinel == << <<" ">>, "0" >>

\* Option::None returned by fuzzy_match
NoScore == 0 - 1

\* mojis::EMOJIS: (description, glyph) pairs, descriptions as character
\* sequences; the length is a multiple of the chunk width, as the message
\* of the expect in for_each says of the real table
Corpus ==
  << << <<"a", "b">>,      "g1" >>,
     << <<"b", "a">>,      "g2" >>,
     << <<"a", "d", "b">>, "g3" >>,
     << <<"c">>,           "g4" >>,
     << <<"b", "b">>,      "g5" >>,
     << <<"d", "a">>,      "g6" >>,
     << <<"e">>,           "g7" >>,
     << <<"b", "e">>,      "g8" >>,
     << <<"e", "a">>,      "g9" >>,
     << <<"d">>,           "g10" >> >>

\* the texts the search box can hold
Queries == { <<>>, <<"a", "b">>, <<"c">>, <<"z">> }

\* scores the fuzzy matcher can report: none, at the threshold, above it
Scores == { NoScore, Threshold, Threshold + 1 }

(* ---------------------------------------------------------------------- *)
(* Pure helpers                                                            *)
(* ---------------------------------------------------------------------- *)

\* str::contains: needle occurs as a contiguous run of hay ("" always does)
contains(hay, needle) ==
  \E i \in 0 .. (Len(hay) - Len(needle)) :
     SubSeq(hay, i + 1, i + Len(needle)) = needle

RECURSIVE IsSubsequence(_, _)
\* the characters of q appear in d in the same relative order
IsSubsequence(q, d) ==
  IF q = <<>> THEN TRUE
  ELSE IF d = <<>> THEN FALSE
  ELSE IF Head(q) = Head(d) THEN IsSubsequence(Tail(q), Tail(d))
  ELSE IsSubsequence(q, Tail(d))

\* the (description, pattern) pairs on which the fuzzy matcher can score
FuzzyPairs ==
  { p \in { <<Corpus[i][1], q>> : i \in 1 .. Len(Corpus), q \in Queries } :
      p[2] # <<>> /\ IsSubsequence(p[2], p[1]) }

VARIABLES
  corpus,     \* the static table mojis::EMOJIS the program was built with
  matcher,    \* ClangdMatcher: the score it gives each (description, pattern)
  search,     \* data.search
  emojis,     \* data.emojis: the slice reference [ptr, len]
  INTERN,     \* the static slot: [len, ptr]
  heap,       \* blocks leaked by filter, by address: [data, drops]
  pc,         \* position of the host / handler
  event,      \* the event being handled, or the last one handled
  list,       \* filter's local `list` (line 64): [ptr, len]
  pointer,    \* filter's local `pointer` (lines 83, 86)
  length,     \* filter's local `length` (line 85)
  cmd,        \* command submitted by on_click, <<>> or <<emoji>>
  clipboard,  \* last string put on the clipboard, "" initially
  old_data,   \* the host's copy of the data as of the last update
  grid,       \* rows produced by for_each at the last update
  same_signal,\* what Data::same last told the host about the list data
  row_mut     \* the row a for_each_mut callback holds after changing a slot

vars == << corpus, matcher, search, emojis, INTERN, heap, pc, event, list,
           pointer, length, cmd, clipboard, old_data, grid, same_signal,
           row_mut >>

(* ---------------------------------------------------------------------- *)
(* Memory                                                                  *)
(* ---------------------------------------------------------------------- *)

\* the entries a slice reference [ptr, len] points at.  A heap block keeps
\* its contents after drop_in_place: the elements are Copy and the buffer
\* is never deallocated, so the read is defined.
Deref(h, ref) ==
  IF ref.ptr = STATIC THEN SubSeq(corpus, 1, ref.len)
  ELSE IF ref.ptr \in 1 .. Len(h) THEN SubSeq(h[ref.ptr].data, 1, ref.len)
  ELSE <<>>

\* EmojiList::new(mojis::EMOJIS): a transmuted reference to the static corpus
EmojiListNew == [ptr |-> STATIC, len |-> Len(corpus)]

\* ptr::drop_in_place(slice_from_raw_parts_mut(p, n)): runs the element
\* destructors of the block at p; it does not deallocate the buffer.  The
\* dangling pointer of an empty Vec addresses no block.
drop_in_place(h, p, n) ==
  IF p \in 1 .. Len(h) THEN [h EXCEPT ![p].drops = @ + 1] ELSE h

(* ---------------------------------------------------------------------- *)
(* EmojiList::filter, the pure part                                        *)
(* ---------------------------------------------------------------------- *)

\* matcher.fuzzy_match(choice, pattern): Some(score) or None.  The library
\* scores only patterns that are subsequences of the choice.
fuzzy_match(m, choice, pattern) ==
  IF <<choice, pattern>> \in DOMAIN m THEN m[<<choice, pattern>>] ELSE NoScore

\* the threshold test with an inclusive comparison
ScoreAcceptAtLeast(score) == score >= Threshold

\* |score| score > 25
ScoreAccept(score) == score > Threshold

\* the filter closure without the literal-substring test
KeepFuzzyOnly(m, e, s) ==
  \/ s = <<>>
  \/ LET score == fuzzy_match(m, e[1], s)
     IN  IF score = NoScore THEN FALSE ELSE ScoreAccept(score)

\* the closure given to Iterator::filter, lines 67-74
Keep(m, e, s) ==
  \/ contains(e[1], s)
  \/ s = <<>>
  \/ LET score == fuzzy_match(m, e[1], s)
     IN  IF score = NoScore THEN FALSE ELSE ScoreAccept(score)

\* filter narrowing the receiver's entries instead of the corpus
FilterListSelf(m, self, s) == SelectSeq(self, LAMBDA e : Keep(m, e, s))

RECURSIVE Reverse(_)
Reverse(s) == IF s = <<>> THEN <<>> ELSE Reverse(Tail(s)) \o << Head(s) >>

\* filter collecting the matches in reverse order
FilterListReversed(m, self, s) ==
  Reverse(SelectSeq(corpus, LAMBDA e : Keep(m, e, s)))

\* filter re-filtering incrementally: a non-empty query narrows the entries
\* the receiver already holds
FilterListIncremental(m, self, s) ==
  IF s = <<>> THEN corpus ELSE SelectSeq(self, LAMBDA e : Keep(m, e, s))

\* mojis::EMOJIS.iter().copied().filter(..).map(Emoji).collect(): the
\* receiver `self` is not read
FilterList(m, self, s) == SelectSeq(corpus, LAMBDA e : Keep(m, e, s))

(* ---------------------------------------------------------------------- *)
(* ListIter<[Emoji; 5]> for EmojiList                                      *)
(* ---------------------------------------------------------------------- *)

RECURSIVE chunks_exact(_, _)
\* slice::chunks_exact(n): only the full runs of n entries
chunks_exact(s, n) ==
  IF Len(s) < n THEN <<>>
  ELSE << SubSeq(s, 1, n) >> \o chunks_exact(SubSeq(s, n + 1, Len(s)), n)

RECURSIVE chunks(_, _)
\* slice::chunks(n): consecutive runs of n entries, the last one shorter
chunks(s, n) ==
  IF s = <<>> THEN <<>>
  ELSE IF Len(s) <= n THEN << s >>
  ELSE << SubSeq(s, 1, n) >> \o chunks(SubSeq(s, n + 1, Len(s)), n)

\* the padding loop stopping one short: for _ in e.len()..4
PadOneShort(e) == e \o [ k \in 1 .. (ChunkWidth - 1 - Len(e)) |-> Sentinel ]

\* for _ in e.len()..5 { e.push(Emoji((" ", "0"))) }
Pad(e) == e \o [ k \in 1 .. (ChunkWidth - Len(e)) |-> Sentinel ]

\* e.try_into(): a Vec converts to [Emoji; 5] iff it holds exactly 5
TryIntoOk(e) == Len(e) = ChunkWidth

\* the rows for_each passes to its callback, in order (row i at index i+1)
for_each(s) ==
  LET c == chunks(s, ChunkWidth)
  IN  [ i \in 1 .. Len(c) |-> Pad(c[i]) ]

\* .expect(..) in for_each / for_each_mut panics on some chunk
ExpectFails(s) == \E i \in 1 .. Len(for_each(s)) : ~ TryIntoOk(for_each(s)[i])

\* for_each_mut with a callback that overwrites slot n of row r with v:
\* the callback's row is a padded copy of the chunk (to_vec), which is
\* dropped after the call; nothing is copied back into the slice
for_each_mut(s, r, n, v) ==
  [ row     |-> [ for_each(s)[r + 1] EXCEPT ![n + 1] = v ],
    storage |-> s ]

\* every tile's closure reading the first slot of the row
tile_data_first(row, idx) == row[1]

\* the closure of tile idx in emoji_row: on_click(&data[idx], ctx)
tile_data(row, idx) == row[idx + 1]

\* emoji.0.1, the string EmojiCopy::command puts on the clipboard
glyph(emoji) == emoji[2]

\* data.data_len()
data_len(ref) == ref.len

\* a comparison of the two slice references themselves
same_slice(a, b) == a = b

\* Data::same for EmojiList
same(a, b) == data_len(a) = data_len(b)

(* ---------------------------------------------------------------------- *)
(* Host events                                                             *)
(* ---------------------------------------------------------------------- *)

NoEvent == [kind |-> "none", q |-> <<>>, r |-> 0, n |-> 0]

NoList == [ptr |-> NULL, len |-> 0]

\* a key press that changes the text of the search box to q
TextEvents == { [kind |-> "text", q |-> q, r |-> 0, n |-> 0] : q \in Queries }

\* a click on tile n of the r-th row widget the list currently has
ClickEvents(rows) ==
  { [kind |-> "click", q |-> <<>>, r |-> r, n |-> n] :
      r \in 0 .. (rows - 1), n \in 0 .. (ChunkWidth - 1) }

\* any event that neither edits the text nor clicks a tile (mouse move, ...)
OtherEvents == { [kind |-> "other", q |-> <<>>, r |-> 0, n |-> 0] }

\* main, line 292, and the static INTERN, lines 23-24: the state at launch
Init ==
  /\ corpus = Corpus
  /\ matcher \in [FuzzyPairs -> Scores]
  /\ search = <<>>
  /\ emojis = EmojiListNew
  /\ INTERN = [len |-> 0, ptr |-> NULL]
  /\ heap = <<>>
  /\ pc = "idle"
  /\ event = NoEvent
  /\ list = NoList
  /\ pointer = NULL
  /\ length = 0
  /\ cmd = <<>>
  /\ clipboard = ""
  /\ old_data = [search |-> <<>>, emojis |-> EmojiListNew]
  /\ grid = for_each(corpus)
  /\ same_signal = TRUE
  /\ row_mut = <<>>

\* a handler that re-filters only on events that edit the text
HostEventFilterOnText ==
  /\ pc = "idle"
  /\ Len(heap) < MaxAllocs
  /\ \E ev \in TextEvents \cup ClickEvents(Len(grid)) \cup OtherEvents :
        /\ ev.kind = "text" => ev.q # search
        /\ event' = ev
        /\ pc' = IF ev.kind = "text" THEN "collect" ELSE "dispatch"
  /\ UNCHANGED << corpus, same_signal, row_mut >>
  /\ UNCHANGED << matcher, search, emojis, INTERN, heap, list, pointer,
                  length, cmd, clipboard, old_data, grid >>

\* the host delivers the next event to EmojiPane::event
HostEvent ==
  /\ pc = "idle"
  /\ Len(heap) < MaxAllocs
  /\ \E ev \in TextEvents \cup ClickEvents(Len(grid)) \cup OtherEvents :
        /\ ev.kind = "text" => ev.q # search
        /\ event' = ev
  /\ pc' = "collect"
  /\ UNCHANGED << corpus, same_signal, row_mut >>
  /\ UNCHANGED << matcher, search, emojis, INTERN, heap, list, pointer,
                  length, cmd, clipboard, old_data, grid >>

\* filter building the list and writing it into the receiver at once
FilterCollectInPlace ==
  /\ pc = "collect"
  /\ LET l == FilterList(matcher, Deref(heap, emojis), search)
     IN  IF l = <<>>
         THEN /\ heap' = heap
              /\ list' = [ptr |-> DANGLING, len |-> 0]
         ELSE /\ heap' = Append(heap, [data |-> l, drops |-> 0])
              /\ list' = [ptr |-> Len(heap) + 1, len |-> Len(l)]
  /\ emojis' = list'
  /\ pc' = "load"
  /\ UNCHANGED << corpus, same_signal, row_mut >>
  /\ UNCHANGED << matcher, search, INTERN, event, pointer, length,
                  cmd, clipboard, old_data, grid >>

\* filter, lines 64-80: build the Vec, leak it, take its length and pointer
FilterCollect ==
  /\ pc = "collect"
  /\ LET l == FilterList(matcher, Deref(heap, emojis), search)
     IN  IF l = <<>>
         THEN /\ heap' = heap
              /\ list' = [ptr |-> DANGLING, len |-> 0]
         ELSE /\ heap' = Append(heap, [data |-> l, drops |-> 0])
              /\ list' = [ptr |-> Len(heap) + 1, len |-> Len(l)]
  /\ pc' = "load"
  /\ UNCHANGED << corpus, same_signal, row_mut >>
  /\ UNCHANGED << matcher, search, emojis, INTERN, event, pointer, length,
                  cmd, clipboard, old_data, grid >>

\* filter, lines 82-84: load the slot's pointer and test it for null
FilterLoad ==
  /\ pc = "load"
  /\ pointer' = INTERN.ptr
  /\ pc' = IF INTERN.ptr # NULL THEN "drop" ELSE "store_len"
  /\ UNCHANGED << corpus, same_signal, row_mut >>
  /\ UNCHANGED << matcher, search, emojis, INTERN, heap, event, list, length,
                  cmd, clipboard, old_data, grid >>

\* filter, lines 85-87: reload length and pointer, drop the old slice
FilterDrop ==
  /\ pc = "drop"
  /\ length' = INTERN.len
  /\ pointer' = INTERN.ptr
  /\ heap' = drop_in_place(heap, INTERN.ptr, INTERN.len)
  /\ pc' = "store_len"
  /\ UNCHANGED << corpus, same_signal, row_mut >>
  /\ UNCHANGED << matcher, search, emojis, INTERN, event, list, cmd,
                  clipboard, old_data, grid >>

\* filter storing the length it loaded from the slot instead of the new one
FilterStoreLenOld ==
  /\ pc = "store_len"
  /\ INTERN' = [INTERN EXCEPT !.len = length]
  /\ pc' = "store_ptr"
  /\ UNCHANGED << corpus, same_signal, row_mut >>
  /\ UNCHANGED << matcher, search, emojis, heap, event, list, pointer,
                  length, cmd, clipboard, old_data, grid >>

\* filter, line 89: l.store(len)
FilterStoreLen ==
  /\ pc = "store_len"
  /\ INTERN' = [INTERN EXCEPT !.len = list.len]
  /\ pc' = "store_ptr"
  /\ UNCHANGED << corpus, same_signal, row_mut >>
  /\ UNCHANGED << matcher, search, emojis, heap, event, list, pointer,
                  length, cmd, clipboard, old_data, grid >>

\* filter storing the receiver's pointer instead of the new list's
FilterStorePtrSelf ==
  /\ pc = "store_ptr"
  /\ INTERN' = [INTERN EXCEPT !.ptr = emojis.ptr]
  /\ pc' = "assign"
  /\ UNCHANGED << corpus, same_signal, row_mut >>
  /\ UNCHANGED << matcher, search, emojis, heap, event, list, pointer,
                  length, cmd, clipboard, old_data, grid >>

\* filter, line 90: p.store(ptr)
FilterStorePtr ==
  /\ pc = "store_ptr"
  /\ INTERN' = [INTERN EXCEPT !.ptr = list.ptr]
  /\ pc' = "assign"
  /\ UNCHANGED << corpus, same_signal, row_mut >>
  /\ UNCHANGED << matcher, search, emojis, heap, event, list, pointer,
                  length, cmd, clipboard, old_data, grid >>

\* event, line 150: data.emojis = <the list filter returned>
EventAssign ==
  /\ pc = "assign"
  /\ emojis' = list
  /\ list' = NoList
  /\ pointer' = NULL
  /\ length' = 0
  /\ pc' = "dispatch"
  /\ UNCHANGED << corpus, same_signal, row_mut >>
  /\ UNCHANGED << matcher, search, INTERN, heap, event, cmd, clipboard,
                  old_data, grid >>

\* event, line 151, a text event: the search box writes the new text
\* through its lens (a.search = b)
TextBoxEvent ==
  /\ pc = "dispatch"
  /\ event.kind = "text"
  /\ search' = event.q
  /\ pc' = "command"
  /\ UNCHANGED << corpus, same_signal, row_mut >>
  /\ UNCHANGED << matcher, emojis, INTERN, heap, event, list, pointer,
                  length, cmd, clipboard, old_data, grid >>

\* event, line 151, a click: the list walks for_each_mut over the current
\* data and the clicked tile's on_click submits COPY with data[n]
ClickEvent ==
  /\ pc = "dispatch"
  /\ event.kind = "click"
  /\ LET rows == for_each(Deref(heap, emojis))
     IN  IF ExpectFails(Deref(heap, emojis))
         THEN /\ pc' = "panic"
              /\ cmd' = cmd
         ELSE /\ pc' = "command"
              /\ cmd' = IF event.r < Len(rows)
                        THEN << tile_data(rows[event.r + 1], event.n) >>
                        ELSE cmd
  /\ UNCHANGED << corpus, same_signal, row_mut >>
  /\ UNCHANGED << matcher, search, emojis, INTERN, heap, event, list,
                  pointer, length, clipboard, old_data, grid >>

\* event, line 151, any other event: no widget changes the data
OtherEvent ==
  /\ pc = "dispatch"
  /\ event.kind = "other"
  /\ pc' = "command"
  /\ UNCHANGED << corpus, same_signal, row_mut >>
  /\ UNCHANGED << matcher, search, emojis, INTERN, heap, event, list,
                  pointer, length, cmd, clipboard, old_data, grid >>

\* EmojiCopy::command: a submitted COPY puts the emoji's glyph on the
\* clipboard
DelegateCommand ==
  /\ pc = "command"
  /\ IF cmd # <<>>
     THEN /\ clipboard' = glyph(cmd[1])
          /\ cmd' = <<>>
     ELSE UNCHANGED << clipboard, cmd >>
  /\ pc' = "same"
  /\ UNCHANGED << corpus, same_signal, row_mut >>
  /\ UNCHANGED << matcher, search, emojis, INTERN, heap, event, list,
                  pointer, length, old_data, grid >>

\* the host, before it updates the list under the EmojiStuff::emojis lens,
\* asks Data::same whether the list data differs from its old_data copy
DataSame ==
  /\ pc = "same"
  /\ same_signal' = same(old_data.emojis, emojis)
  /\ pc' = "update"
  /\ UNCHANGED << corpus, matcher, search, emojis, INTERN, heap, event, list,
                  pointer, length, cmd, clipboard, old_data, grid, row_mut >>

\* line 152 request_paint, then the host's update(old_data, data) and
\* paint(data): the list asks for_each for the rows of the current data
HostUpdatePaint ==
  /\ pc = "update"
  /\ IF ExpectFails(Deref(heap, emojis))
     THEN /\ pc' = "panic"
          /\ UNCHANGED << grid, old_data >>
     ELSE /\ pc' = "idle"
          /\ grid' = for_each(Deref(heap, emojis))
          /\ old_data' = [search |-> search, emojis |-> emojis]
  /\ UNCHANGED << corpus, same_signal, row_mut >>
  /\ UNCHANGED << matcher, search, emojis, INTERN, heap, event, list,
                  pointer, length, cmd, clipboard >>

Next ==
  \/ HostEvent
  \/ FilterCollect
  \/ FilterLoad
  \/ FilterDrop
  \/ FilterStoreLen
  \/ FilterStorePtr
  \/ EventAssign
  \/ TextBoxEvent
  \/ ClickEvent
  \/ OtherEvent
  \/ DelegateCommand
  \/ DataSame
  \/ HostUpdatePaint

Spec == Init /\ [][Next]_vars

TypeOK ==
  /\ search \in Queries
  /\ pc \in { "idle", "collect", "load", "drop", "store_len", "store_ptr",
              "assign", "dispatch", "command", "same", "update", "mutated",
              "panic" }
  /\ Len(heap) <= MaxAllocs
  /\ emojis.ptr \in { STATIC, DANGLING } \cup (1 .. Len(heap))

(* ---------------------------------------------------------------------- *)
(* The chunker on its own: for_each applied to every possible result       *)
(* ---------------------------------------------------------------------- *)

RECURSIVE Pick(_, _)
\* the corpus entries whose index is in S, from index i on, in corpus order
Pick(S, i) ==
  IF i > Len(Corpus) THEN <<>>
  ELSE (IF i \in S THEN << Corpus[i] >> ELSE <<>>) \o Pick(S, i + 1)

\* the handler has just stored some filtered result, any subsequence of the
\* corpus, in data.emojis and the slot; the host is about to update and paint
InitChunk ==
  /\ corpus = Corpus
  /\ matcher = [p \in FuzzyPairs |-> NoScore]
  /\ search = <<>>
  /\ \E S \in SUBSET (1 .. Len(Corpus)) :
        LET r == Pick(S, 1)
        IN  /\ heap = IF r = <<>> THEN <<>> ELSE << [data |-> r, drops |-> 0] >>
            /\ emojis = [ptr |-> IF r = <<>> THEN DANGLING ELSE 1, len |-> Len(r)]
            /\ INTERN = [len |-> Len(r), ptr |-> IF r = <<>> THEN DANGLING ELSE 1]
  /\ pc = "update"
  /\ event = [kind |-> "other", q |-> <<>>, r |-> 0, n |-> 0]
  /\ list = NoList
  /\ pointer = NULL
  /\ length = 0
  /\ cmd = <<>>
  /\ clipboard = ""
  /\ old_data = [search |-> <<>>, emojis |-> EmojiListNew]
  /\ grid = for_each(corpus)
  /\ same_signal = same(old_data.emojis, emojis)
  /\ row_mut = <<>>

\* what a mutating callback writes into a slot
MutValues == { << <<"x">>, "gx" >> }

\* a ListIter client walks for_each_mut over the current data with a
\* callback that overwrites one slot of one row
ForEachMut ==
  /\ pc = "idle"
  /\ \E r \in 0 .. (Len(grid) - 1), n \in 0 .. (ChunkWidth - 1), v \in MutValues :
        LET s == Deref(heap, emojis)
            m == for_each_mut(s, r, n, v)
        IN  IF ExpectFails(s)
            THEN /\ pc' = "panic"
                 /\ UNCHANGED << heap, row_mut, event >>
            ELSE /\ pc' = "mutated"
                 /\ row_mut' = m.row
                 /\ heap' = IF emojis.ptr \in 1 .. Len(heap)
                            THEN [heap EXCEPT ![emojis.ptr].data = m.storage]
                            ELSE heap
                 /\ event' = [kind |-> "mutate", q |-> <<>>, r |-> r, n |-> n]
  /\ UNCHANGED << corpus, matcher, search, emojis, INTERN, list, pointer,
                  length, cmd, clipboard, old_data, grid, same_signal >>

NextChunk ==
  \/ HostUpdatePaint
  \/ ForEachMut

SpecChunk == InitChunk /\ [][NextChunk]_vars

(* ---------------------------------------------------------------------- *)
(* The program built with a table of any length                            *)
(* ---------------------------------------------------------------------- *)

\* main, lines 289-296: the table is wrapped by EmojiList::new as it is and
\* the application is launched; the first update and paint are pending
InitLoad ==
  /\ \E n \in 0 .. Len(Corpus) : corpus = SubSeq(Corpus, 1, n)
  /\ matcher = [p \in FuzzyPairs |-> Threshold + 1]
  /\ search = <<>>
  /\ emojis = EmojiListNew
  /\ INTERN = [len |-> 0, ptr |-> NULL]
  /\ heap = <<>>
  /\ pc = "update"
  /\ event = NoEvent
  /\ list = NoList
  /\ pointer = NULL
  /\ length = 0
  /\ cmd = <<>>
  /\ clipboard = ""
  /\ old_data = [search |-> <<>>, emojis |-> EmojiListNew]
  /\ grid = <<>>
  /\ same_signal = TRUE
  /\ row_mut = <<>>

SpecLoad == InitLoad /\ [][Next]_vars

(* ---------------------------------------------------------------------- *)
(* Properties                                                              *)
(* ---------------------------------------------------------------------- *)

Range(s) == { s[i] : i \in 1 .. Len(s) }

\* the heap blocks that were the current result once and no longer are:
\* neither in the slot nor the list filter is building
Retired == { b \in 1 .. Len(heap) : b # INTERN.ptr /\ b # list.ptr }

\* what filter(corpus, q) is, for the matcher of this run
Filtered(q) == FilterList(matcher, Corpus, q)

\* C1: every retired result has had its storage released, so no retired
\* result is still on the heap (the heap holds exactly the blocks that were
\* allocated and not deallocated).
C1_NoRetiredResultUnreleased == Retired = {}

\* C2: no reader of the current result (data.emojis, the host's old_data
\* copy) refers to a result whose release has started.
C2_ReadersNeverSeeReleased ==
  \A ref \in { emojis, old_data.emojis } :
     ref.ptr \in 1 .. Len(heap) => heap[ref.ptr].drops = 0

\* C3: a result is released only after the slot and the application state
\* have stopped referring to it (built, then slot updated, then released).
C3_ReleaseOnlyAfterSlotUpdate ==
  [][ \A b \in 1 .. Len(heap) :
         heap'[b].drops > heap[b].drops =>
            /\ INTERN.ptr # b
            /\ emojis.ptr # b ]_vars

\* C4: once a text-input event that set the query to q has been handled,
\* the cached result and the rows handed to the host are those of
\* filter(corpus, q).
C4_ResultFollowsTextInput ==
  (pc = "idle" /\ event.kind = "text") =>
     /\ Deref(heap, emojis) = Filtered(search)
     /\ grid = for_each(Filtered(search))

\* C5: filter with the empty query returns the whole corpus, in order,
\* whatever result is current.
C5_EmptyQueryWholeCorpus ==
  (pc = "load" /\ search = <<>>) => Deref(heap, list) = Corpus

\* C5 witness: the empty query is filtered while a narrower result is cached
C5_Witness ==
  /\ pc = "load"
  /\ search = <<>>
  /\ INTERN.ptr # NULL
  /\ Len(Deref(heap, emojis)) < Len(Corpus)
  /\ Deref(heap, list) = Corpus

\* C6: an entry whose description contains the query is in the result,
\* whatever the fuzzy matcher says about it.
C6_SubstringAlwaysIncluded ==
  pc = "load" =>
     \A i \in 1 .. Len(Corpus) :
        contains(Corpus[i][1], search) => Corpus[i] \in Range(Deref(heap, list))

\* C6 witness: a non-empty query is a substring of an entry the matcher
\* scores at or below the threshold, or not at all
C6_Witness ==
  /\ pc = "load"
  /\ search # <<>>
  /\ \E i \in 1 .. Len(Corpus) :
        /\ contains(Corpus[i][1], search)
        /\ fuzzy_match(matcher, Corpus[i][1], search) <= Threshold
        /\ Corpus[i] \in Range(Deref(heap, list))

\* no entry occurs twice in s
NoDuplicates(s) == \A i, j \in 1 .. Len(s) : i # j => s[i] # s[j]

\* C7: the current result, and the one filter has just built, is a
\* subsequence of the corpus in corpus order without duplicates.
C7_ResultIsOrderedSubsequence ==
  \A ref \in { emojis, list } :
     /\ IsSubsequence(Deref(heap, ref), Corpus)
     /\ NoDuplicates(Deref(heap, ref))

\* C7 witness: after several queries the result holds two or more entries
\* but not the whole corpus
C7_Witness ==
  /\ pc = "idle"
  /\ Len(heap) >= 2
  /\ emojis.ptr \in 1 .. Len(heap)
  /\ Len(Deref(heap, emojis)) >= 2
  /\ Len(Deref(heap, emojis)) < Len(Corpus)

\* C8: for a non-empty query that is not a substring of the description,
\* the entry is in the result iff the matcher gives a score above 25.
C8_FuzzyThreshold ==
  (pc = "load" /\ search # <<>>) =>
     \A i \in 1 .. Len(Corpus) :
        ~ contains(Corpus[i][1], search) =>
           ( Corpus[i] \in Range(Deref(heap, list))
               <=> /\ fuzzy_match(matcher, Corpus[i][1], search) # NoScore
                   /\ fuzzy_match(matcher, Corpus[i][1], search) > Threshold )

\* C8 witness: a non-substring entry scored exactly 25 is left out
C8_Witness ==
  /\ pc = "load"
  /\ search # <<>>
  /\ \E i \in 1 .. Len(Corpus) :
        /\ ~ contains(Corpus[i][1], search)
        /\ fuzzy_match(matcher, Corpus[i][1], search) = Threshold
        /\ Corpus[i] \notin Range(Deref(heap, list))

RECURSIVE RealEntries(_)
\* the non-padding entries of the rows, concatenated in order
RealEntries(rows) ==
  IF rows = <<>> THEN <<>>
  ELSE SelectSeq(Head(rows), LAMBDA e : e # Sentinel) \o RealEntries(Tail(rows))

\* C9: the rows handed to the host for a result of length L are ceil(L/5)
\* rows of 5 slots, padded in the last row only, whose real entries
\* concatenate to the result; an empty result gives no rows.
C9_ChunkRows ==
  pc = "idle" =>
     LET r == Deref(heap, emojis)
     IN  /\ Len(grid) = (Len(r) + ChunkWidth - 1) \div ChunkWidth
         /\ \A i \in 1 .. Len(grid) : Len(grid[i]) = ChunkWidth
         /\ \A i \in 1 .. (Len(grid) - 1) : Sentinel \notin Range(grid[i])
         /\ RealEntries(grid) = r
         /\ (r = <<>> => grid = <<>>)

\* C9 witness: a result of 6 entries was rendered as two rows, the second
\* one padded
C9_Witness ==
  /\ pc = "idle"
  /\ emojis.ptr \in 1 .. Len(heap)
  /\ emojis.len = ChunkWidth + 1
  /\ Len(grid) = 2
  /\ grid[2][2] = Sentinel

\* C10: the glyph of a padding sentinel is never handed to the command or
\* clipboard mechanism.
C10_PaddingNeverCopied ==
  /\ cmd # << Sentinel >>
  /\ clipboard # Sentinel[2]

\* C11: when tile N of row R is clicked and holds a real entry, the glyph
\* put on the clipboard is that of entry 5*R+N of the current filtered
\* result, the one the latest filter call installed.
C11_ClickCopiesEntryGlyph ==
  ( /\ pc = "update"
    /\ event.kind = "click"
    /\ ChunkWidth * event.r + event.n < emojis.len ) =>
     /\ INTERN.ptr = emojis.ptr
     /\ clipboard = Deref(heap, emojis)[ChunkWidth * event.r + event.n + 1][2]

\* C11 witness: with the two-entry result of a narrowing query current,
\* tile 1 of row 0 was clicked and the glyph of the result's second entry
\* (the corpus's third) is on the clipboard
C11_Witness ==
  /\ pc = "update"
  /\ event.kind = "click"
  /\ event.r = 0
  /\ event.n = 1
  /\ emojis.len = 2
  /\ clipboard = Corpus[3][2]

\* C12: the staleness signal is true exactly when the old and the new
\* result have the same number of entries, whatever the entries are.
C12_SameComparesLengthsOnly ==
  pc = "update" =>
     ( same_signal <=>
         Len(Deref(heap, old_data.emojis)) = Len(Deref(heap, emojis)) )

\* C12 witness: two results with different entries and equal length were
\* reported as the same
C12_Witness ==
  /\ pc = "update"
  /\ same_signal
  /\ old_data.emojis.len > 0
  /\ Deref(heap, old_data.emojis) # Deref(heap, emojis)

\* C13: the list filter builds depends on the query alone: whatever was
\* filtered before and whatever result the receiver holds, it is the
\* result of filtering the whole corpus with the current search text.
C13_FilterDependsOnQueryOnly ==
  pc = "load" => Deref(heap, list) = Filtered(search)

\* C13 witness: a broader query filtered after a narrower one brings back
\* an entry the cached result does not have
C13_Witness ==
  /\ pc = "load"
  /\ INTERN.ptr # NULL
  /\ emojis.ptr # STATIC
  /\ \E e \in Range(Deref(heap, list)) : e \notin Range(Deref(heap, emojis))

\* the positions inside EmojiList::filter
FilterPcs == { "collect", "load", "drop", "store_len", "store_ptr" }

C15_NonDivisibleCorpusRejected ==
  (Len(corpus) % ChunkWidth # 0) =>
     /\ pc \in { "update", "panic" }
     /\ grid = <<>>

\* C16: after a for_each_mut callback changed a slot, a real slot's new
\* value is in the corresponding entry of the underlying result, and a
\* padding slot's new value is nowhere in the result.
C16_MutationWrittenBack ==
  pc = "mutated" =>
     LET idx == ChunkWidth * event.r + event.n + 1
         s == Deref(heap, emojis)
     IN  /\ idx <= emojis.len => s[idx] = row_mut[event.n + 1]
         /\ idx > emojis.len => row_mut[event.n + 1] \notin Range(s)

\* C17: when filter has returned, the slot's length and pointer are those
\* of the list it returned; from then until the next filter call they are
\* those of data.emojis, and the length is that of the block the pointer
\* addresses.
C17_SlotDescribesResult ==
  /\ pc = "assign" => INTERN = [len |-> list.len, ptr |-> list.ptr]
  /\ (pc \notin FilterPcs /\ pc # "assign" /\ INTERN.ptr # NULL) =>
        INTERN = [len |-> emojis.len, ptr |-> emojis.ptr]
  /\ (pc \notin FilterPcs /\ INTERN.ptr \in 1 .. Len(heap)) =>
        INTERN.len = Len(heap[INTERN.ptr].data)

\* C17 witness: between events, after a second result of another length
\* was installed, the slot describes that result
C17_Witness ==
  /\ pc = "idle"
  /\ Len(heap) >= 2
  /\ INTERN.ptr = Len(heap)
  /\ emojis.ptr = Len(heap)
  /\ INTERN.len = Len(heap[Len(heap)].data)
  /\ INTERN.len # Len(heap[Len(heap) - 1].data)

\* C18: the static corpus is never released: the slot never holds the
\* initial list, the first filter call finds a null pointer and drops
\* nothing, and every later drop is given what an earlier filter call
\* produced (a leaked block other than the one just built, or the dangling
\* pointer of an empty result).
C18_CorpusNeverReleased ==
  /\ INTERN.ptr # STATIC
  /\ pointer # STATIC
  /\ (pc = "store_len" /\ pointer = NULL) =>
        \A b \in 1 .. Len(heap) : heap[b].drops = 0
  /\ (pc = "store_len" /\ pointer # NULL) =>
        \/ pointer = DANGLING
        \/ (pointer \in 1 .. Len(heap) /\ pointer # list.ptr)

\* C18 witness: a later filter call has dropped the block the first call
\* allocated
C18_Witness ==
  /\ pc = "store_len"
  /\ pointer = 1
  /\ heap[1].drops = 1
  /\ list.ptr = 2

\* C19: for every result length each chunk holds 1 to 5 entries and exactly
\* 5 after padding, so the conversion to [Emoji; 5] succeeds and neither
\* for_each nor for_each_mut panics (checked once either has run).
C19_TryIntoNeverFails ==
  /\ pc # "panic"
  /\ pc \in { "idle", "mutated" } =>
        LET c == chunks(Deref(heap, emojis), ChunkWidth)
        IN  \A i \in 1 .. Len(c) :
               /\ Len(c[i]) \in 1 .. ChunkWidth
               /\ TryIntoOk(Pad(c[i]))

\* C19 witness: for_each_mut has walked a result of 7 entries and handed
\* its callback the second, short row
C19_Witness ==
  /\ pc = "mutated"
  /\ emojis.len = ChunkWidth + 2
  /\ event.r = 1
  /\ Len(row_mut) = ChunkWidth
  /\ row_mut[ChunkWidth] = Sentinel

\* C20: every event, text-changing or not, is handled by first filtering
\* with the search text as it is on arrival; so when an event that does not
\* change the text has been handled, the cached result and the rows are
\* those of the current search text, also after further such events.
C20_ResultCatchesUp ==
  /\ pc = "dispatch" => Deref(heap, emojis) = Filtered(search)
  /\ (pc = "idle" /\ event.kind \in { "click", "other" }) =>
        /\ Deref(heap, emojis) = Filtered(search)
        /\ grid = for_each(Filtered(search))

\* C20 witness: the text was changed to a narrowing query by one event and
\* a later event that does not edit the text has been handled; the result
\* is the single entry that query matches
C20_Witness ==
  /\ pc = "idle"
  /\ event.kind = "other"
  /\ search = <<"c">>
  /\ Len(heap) >= 2
  /\ Deref(heap, emojis) = << Corpus[4] >>
  /\ Len(grid) = 1

====
